---- MODULE Spec2Model ----
(***************************************************************************)
(* Model of the TimeBars timer queue engine (scripts/timers.py):           *)
(* the Timer entity, the TimerManager commands and the asyncio task that   *)
(* runs TimerManager._run_loop.  The loop is cut at its await points; the   *)
(* code between two awaits runs as one atomic step, and the commands run   *)
(* atomically between such steps (single-threaded event loop).             *)
(***************************************************************************)
EXTENDS Integers, Sequences, FiniteSets, TLC

\* ---- bounds of the model ------------------------------------------------
MaxTimers == 2          \* Timer objects created over one behaviour
MaxDur == 2             \* largest duration_seconds passed to add_timer
MaxLen == 4             \* longest text entered in the duration field
MaxSeconds == 60        \* longest duration accepted from the duration field
MaxPending == 1         \* cancelled tasks waiting for their last resumption

\* ---- TimerState ----------------------------------------------------------
WAITING == "waiting"
RUNNING == "running"
PAUSED == "paused"
ALARM == "alarm"
COMPLETE == "complete"
TimerState == {WAITING, RUNNING, PAUSED, ALARM, COMPLETE}

Handles == 1..MaxTimers
Durations == 0..MaxDur

\* A slot of the heap that holds no Timer object yet.
NoTimer == [id |-> 0, duration_seconds |-> 0, remaining_seconds |-> 0,
            alarm_enabled |-> FALSE, state |-> WAITING]

\* Timer(...) as the dataclass builds it, __post_init__ included.
Timer(id, duration, remaining, alarm, st) ==
    [id |-> id, duration_seconds |-> duration,
     remaining_seconds |-> IF remaining = 0 THEN duration ELSE remaining,
     alarm_enabled |-> alarm, state |-> st]

\* (mutant) the fraction of the countdown that is left
progressLeft(t) ==
    IF t.duration_seconds = 0 THEN <<1, 1>>
    ELSE <<t.remaining_seconds, t.duration_seconds>>

\* (mutant) reset restores the countdown but leaves the state
resetRemainingOnly(t) == [t EXCEPT !.remaining_seconds = t.duration_seconds]

\* Timer.progress, a float in the code, as the fraction <<numerator,
\* denominator>> it rounds: 1.0 is <<1, 1>> and 1.0 - remaining / duration is
\* (duration - remaining) / duration. The rounding to binary64 keeps order,
\* and keeps the value apart from 1.0 as long as duration < 2^53.
progress(t) ==
    IF t.duration_seconds = 0 THEN <<1, 1>>
    ELSE <<t.duration_seconds - t.remaining_seconds, t.duration_seconds>>

\* Timer.reset
reset(t) == [t EXCEPT !.remaining_seconds = t.duration_seconds, !.state = WAITING]

\* ---- scripts/config.py: Settings, TimerData, persistent.json ---------------
DefaultSettings ==
    [default_alarm_enabled |-> TRUE, alarm_duration_seconds |-> 5, flash_on_alarm |-> TRUE]
SettingsValues == {DefaultSettings, [DefaultSettings EXCEPT !.flash_on_alarm = FALSE]}

\* The ids a stored snapshot can hold: '' (0, what TimerData.from_dict gives
\* an entry without id) and one uuid of an earlier session; add_timer's own
\* ids are the handles 1..MaxTimers.
StoredIds == {0, MaxTimers + 1}

TimerData(id, duration, alarm) ==
    [id |-> id, duration_seconds |-> duration, alarm_enabled |-> alarm]

\* An element of the stored "timer_queue": a JSON object, read by
\* TimerData.from_dict, or a value that has no .get (usable = FALSE).
NotAnObject == [usable |-> FALSE, data |-> TimerData(0, 0, FALSE)]
Entries ==
    {NotAnObject} \cup
    {[usable |-> TRUE, data |-> TimerData(id, d, a)] :
        id \in StoredIds, d \in Durations, a \in BOOLEAN}
RECURSIVE EntryLists(_)
EntryLists(n) ==
    IF n = 0 THEN {<<>>} ELSE {Append(l, e) : l \in EntryLists(n - 1), e \in Entries}

\* The "settings" and "timer_queue" members of the stored object: absent, of
\* a shape the reader cannot use, or usable.
SettingsMembers ==
    {[shape |-> sh, value |-> DefaultSettings] : sh \in {"absent", "unusable"}} \cup
    {[shape |-> "dict", value |-> v] : v \in SettingsValues}
QueueMembers ==
    {[shape |-> sh, items |-> <<>>] : sh \in {"absent", "unusable"}} \cup
    {[shape |-> "list", items |-> l] : l \in UNION {EntryLists(n) : n \in 0..MaxTimers}}

\* persistent.json: missing, unreadable (open fails), garbled (not JSON), a
\* JSON scalar, or a JSON object
Object(s, q) == [kind |-> "object", settings |-> s, timer_queue |-> q]
Plain(k) == [kind |-> k, settings |-> [shape |-> "absent", value |-> DefaultSettings],
             timer_queue |-> [shape |-> "absent", items |-> <<>>]]
Files ==
    {Plain(k) : k \in {"missing", "unreadable", "garbled", "scalar"}} \cup
    {Object(s, q) : s \in SettingsMembers, q \in QueueMembers}

\* PersistenceManager.__init__
DefaultSnapshot == [settings |-> DefaultSettings, timer_queue |-> <<>>]

VARIABLES
    heap,       \* handle -> Timer object (fields of every Timer ever created)
    nobj,       \* number of Timer objects created so far
    timers,     \* TimerManager._timers: sequence of handles
    running,    \* TimerManager._running
    paused,     \* TimerManager._paused
    task,       \* TimerManager._task: "None" or "Task"
    pc,         \* where the latest _run_loop task is suspended
    cur,        \* the local variable `timer` of that task (0: not bound)
    op,         \* the operation that made the last step
    ret,        \* what it returned
    ev,         \* the callbacks it invoked, in order
    hist,       \* handle -> what the callbacks have been told of that timer
    cards,      \* TimeBarsApp._timer_cards: the timer ids that have a card
    text,       \* duration_input.value: the text in the duration field
    file,       \* what persistent.json holds
    snapshot,   \* PersistenceManager._settings and ._timer_queue
    pending     \* cancelled _run_loop tasks the event loop has yet to resume

vars == <<heap, nobj, timers, running, paused, task, pc, cur, op, ret, ev, hist,
          cards, text, file, snapshot, pending>>
\* what surrounds the TimerManager: the page, the persistence, the event loop
app == <<cards, text, file, snapshot, pending>>
engine == <<heap, nobj, timers, running, paused, task, pc, cur>>

\* ---- callbacks -----------------------------------------------------------
\* A callback invocation: which callback, the Timer object passed to it (0:
\* none) and, for on_tick, the remaining_seconds the callback reads from it.
StateChange == [kind |-> "state_change", t |-> 0, remaining |-> 0]
Tick(h, r) == [kind |-> "tick", t |-> h, remaining |-> r]
TimerComplete(h) == [kind |-> "timer_complete", t |-> h, remaining |-> 0]
AlarmStart(h) == [kind |-> "alarm_start", t |-> h, remaining |-> 0]
AlarmEnd(h) == [kind |-> "alarm_end", t |-> h, remaining |-> 0]
QueueComplete == [kind |-> "queue_complete", t |-> 0, remaining |-> 0]

\* What an observer bound to the callbacks knows of a timer the engine holds:
\*   ticks  on_tick calls for it since it was created or last reset
\*   done   on_timer_complete was called for it: 0 never, 1 by an earlier
\*          loop task only, 2 by the task created last only, 3 by both
\*   open   on_alarm_start was called for it and on_alarm_end not since
\*   last   the remaining_seconds on_tick read at the latest of those ticks
\*          (-1: no tick yet)
NoHist == [ticks |-> 0, done |-> 0, open |-> FALSE, last |-> 0 - 1]

Note(hr, e) ==
    CASE e.kind = "tick" -> [hr EXCEPT !.ticks = @ + 1, !.last = e.remaining]
      [] e.kind = "timer_complete" -> [hr EXCEPT !.done = IF @ \in {1, 3} THEN 3 ELSE 2]
      [] e.kind = "alarm_start" -> [hr EXCEPT !.open = TRUE]
      [] e.kind = "alarm_end" -> [hr EXCEPT !.open = FALSE]
      [] OTHER -> hr

\* the observer's record after the callbacks e, taken in order
RECURSIVE Observe(_, _)
Observe(hs, e) ==
    IF e = <<>> THEN hs
    ELSE Observe(IF Head(e).t = 0 THEN hs
                 ELSE [hs EXCEPT ![Head(e).t] = Note(@, Head(e))],
                 Tail(e))

\* ---- properties of TimerManager -------------------------------------------
current_timer == IF Len(timers) > 0 THEN timers[1] ELSE 0
is_running == running /\ ~paused
is_paused == running /\ paused
is_idle == ~running

Live == {"created", "tick", "poll", "alarm"}

\* The heap as the engine can see it: a Timer object that is neither queued
\* nor bound to the local `timer` of a suspended task is referenced by
\* nothing in the engine, and its slot goes back to NoTimer.
Collect(hp, q, p, c) ==
    [h \in Handles |->
        IF (\E i \in 1..Len(q) : q[i] = h) \/ (p \in Live /\ c = h)
        THEN hp[h] ELSE NoTimer]

\* the observer's record is kept for the timers the engine holds
CollectHist(hs, q, p, c) ==
    [h \in Handles |->
        IF (\E i \in 1..Len(q) : q[i] = h) \/ (p \in Live /\ c = h)
        THEN hs[h] ELSE NoHist]

\* a reset timer starts its countdown over
ResetTicks(hs, q) ==
    [h \in Handles |->
        IF \E i \in 1..Len(q) : q[i] = h THEN [hs[h] EXCEPT !.ticks = 0, !.last = 0 - 1] ELSE hs[h]]

\* a new loop task: what was completed so far was completed by earlier tasks
NewRun(hs) ==
    [h \in Handles |-> [hs[h] EXCEPT !.done = IF @ = 0 THEN 0 ELSE 1]]

Init ==
    /\ hist = [h \in Handles |-> NoHist]
    /\ heap = [h \in Handles |-> NoTimer]
    /\ nobj = 0
    /\ timers = <<>>
    /\ running = FALSE
    /\ paused = FALSE
    /\ task = "None"
    /\ pc = "none"
    /\ cur = 0
    /\ op = "init"
    /\ ret = "None"
    /\ ev = <<>>
    /\ cards = {}
    /\ text = <<>>
    /\ file = Plain("missing")
    /\ snapshot = DefaultSnapshot
    /\ pending = 0

\* ---- commands ------------------------------------------------------------
\* (mutant) the new timer is created Running
addRunning(duration, alarm) ==
    /\ nobj < MaxTimers
    /\ LET h == nobj + 1 IN
        /\ heap' = [heap EXCEPT ![h] = Timer(h, duration, duration, alarm, RUNNING)]
        /\ nobj' = h
        /\ timers' = Append(timers, h)
    /\ op' = "add_timer"
    /\ ret' = "Timer"
    /\ ev' = <<StateChange>>
    /\ UNCHANGED <<running, paused, task, pc, cur, hist>>

\* (mutant) the new timer is put in front of the queue
addAtHead(duration, alarm) ==
    /\ nobj < MaxTimers
    /\ LET h == nobj + 1 IN
        /\ heap' = [heap EXCEPT ![h] = Timer(h, duration, duration, alarm, WAITING)]
        /\ nobj' = h
        /\ timers' = <<h>> \o timers
    /\ op' = "add_timer"
    /\ ret' = "Timer"
    /\ ev' = <<StateChange>>
    /\ UNCHANGED <<running, paused, task, pc, cur, hist>>

add_timer(duration, alarm) ==
    /\ nobj < MaxTimers
    /\ LET h == nobj + 1 IN
        /\ heap' = [heap EXCEPT ![h] = Timer(h, duration, duration, alarm, WAITING)]
        /\ nobj' = h
        /\ timers' = Append(timers, h)
    /\ op' = "add_timer"
    /\ ret' = "Timer"
    /\ ev' = <<StateChange>>
    /\ UNCHANGED <<running, paused, task, pc, cur, hist>>


\* lines 123-134: the timer is appended with the given id; no notification
add_timer_from_data(id, duration, alarm) ==
    /\ nobj < MaxTimers
    /\ LET h == nobj + 1 IN
        /\ heap' = [heap EXCEPT ![h] = Timer(id, duration, duration, alarm, WAITING)]
        /\ nobj' = h
        /\ timers' = Append(timers, h)
    /\ op' = "add_timer_from_data"
    /\ ret' = "Timer"
    /\ ev' = <<>>
    /\ UNCHANGED <<running, paused, task, pc, cur, hist>>

\* Index of the first queued timer whose id is timer_id, 0 when there is none.
IndexOf(q, timer_id) ==
    IF \E i \in 1..Len(q) : heap[q[i]].id = timer_id
    THEN CHOOSE i \in 1..Len(q) :
            /\ heap[q[i]].id = timer_id
            /\ \A j \in 1..(i - 1) : heap[q[j]].id # timer_id
    ELSE 0

\* list.pop(i), with i counted from 1
Pop(q, i) == SubSeq(q, 1, i - 1) \o SubSeq(q, i + 1, Len(q))

\* (mutant) when there is a match, the head is popped whichever timer matched
removeHead(timer_id) ==
    LET i == IndexOf(timers, timer_id) IN
    /\ IF i # 0
       THEN /\ timers' = Pop(timers, 1)
            /\ heap' = Collect(heap, Pop(timers, 1), pc, cur)
            /\ hist' = CollectHist(hist, Pop(timers, 1), pc, cur)
            /\ ret' = "True"
            /\ ev' = <<StateChange>>
       ELSE /\ timers' = timers
            /\ heap' = heap
            /\ hist' = hist
            /\ ret' = "False"
            /\ ev' = <<>>
    /\ op' = "remove_timer"
    /\ UNCHANGED <<nobj, running, paused, task, pc, cur>>

remove_timer(timer_id) ==
    LET i == IndexOf(timers, timer_id) IN
    /\ IF i # 0
       THEN /\ timers' = Pop(timers, i)
            /\ heap' = Collect(heap, Pop(timers, i), pc, cur)
            /\ hist' = CollectHist(hist, Pop(timers, i), pc, cur)
            /\ ret' = "True"
            /\ ev' = <<StateChange>>
       ELSE /\ timers' = timers
            /\ heap' = heap
            /\ hist' = hist
            /\ ret' = "False"
            /\ ev' = <<>>
    /\ op' = "remove_timer"
    /\ UNCHANGED <<nobj, running, paused, task, pc, cur>>

\* (mutant) stop leaves the task running
CancelNothing(p) == p

\* Task.cancel() on the task held in _task: a task suspended at an await (or
\* not yet started) gets CancelledError there, which _run_loop catches and
\* logs; a finished task is not affected.
Cancel(p) == IF p \in Live THEN "cancelled" ELSE p

\* (mutant) stop resets no timer
ResetNone(hp, q) == hp

\* the heap after `for timer in self._timers: timer.reset()`
ResetAll(hp, q) ==
    [h \in Handles |-> IF \E i \in 1..Len(q) : q[i] = h THEN reset(hp[h]) ELSE hp[h]]

stop ==
    /\ running' = FALSE
    /\ paused' = FALSE
    /\ pc' = IF task # "None" THEN Cancel(pc) ELSE pc
    /\ task' = "None"
    /\ cur' = IF pc' \in Live THEN cur ELSE 0
    /\ heap' = Collect(ResetAll(heap, timers), timers, pc', cur')
    /\ hist' = CollectHist(ResetTicks(hist, timers), timers, pc', cur')
    /\ op' = "stop"
    /\ ret' = "None"
    /\ ev' = <<StateChange>>
    /\ UNCHANGED <<nobj, timers>>

\* (mutant) clear_all empties the queue without calling stop()
clearWithoutStop ==
    /\ timers' = <<>>
    /\ heap' = Collect(heap, <<>>, pc, cur)
    /\ hist' = CollectHist(hist, <<>>, pc, cur)
    /\ op' = "clear_all"
    /\ ret' = "None"
    /\ ev' = <<StateChange>>
    /\ UNCHANGED <<nobj, running, paused, task, pc, cur>>

clear_all ==
    /\ running' = FALSE
    /\ paused' = FALSE
    /\ pc' = IF task # "None" THEN Cancel(pc) ELSE pc
    /\ task' = "None"
    /\ cur' = IF pc' \in Live THEN cur ELSE 0
    /\ timers' = <<>>
    /\ heap' = Collect(ResetAll(heap, timers), <<>>, pc', cur')
    /\ hist' = CollectHist(hist, <<>>, pc', cur')
    /\ op' = "clear_all"
    /\ ret' = "None"
    /\ ev' = <<StateChange, StateChange>>
    /\ UNCHANGED <<nobj>>

\* (mutant) start without the `if self._running` test
startTwice ==
    /\ op' = "start"
    /\ IF Len(timers) = 0
       THEN /\ ret' = "False"
            /\ ev' = <<>>
            /\ UNCHANGED <<engine, hist>>
       ELSE IF paused
       THEN /\ paused' = FALSE
            /\ ret' = "True"
            /\ ev' = <<StateChange>>
            /\ UNCHANGED <<heap, nobj, timers, running, task, pc, cur, hist>>
       ELSE /\ running' = TRUE
            /\ paused' = FALSE
            /\ task' = "Task"
            /\ pc' = "created"
            /\ cur' = 0
            /\ ret' = "True"
            /\ ev' = <<StateChange>>
            /\ heap' = Collect(heap, timers, "created", 0)
            /\ hist' = NewRun(hist)
            /\ UNCHANGED <<nobj, timers>>

start ==
    /\ op' = "start"
    /\ IF Len(timers) = 0
       THEN /\ ret' = "False"
            /\ ev' = <<>>
            /\ UNCHANGED <<engine, hist>>
       ELSE IF paused
       THEN /\ paused' = FALSE
            /\ ret' = "True"
            /\ ev' = <<StateChange>>
            /\ UNCHANGED <<heap, nobj, timers, running, task, pc, cur, hist>>
       ELSE IF running
       THEN /\ ret' = "False"
            /\ ev' = <<>>
            /\ UNCHANGED <<engine, hist>>
       ELSE /\ running' = TRUE
            /\ paused' = FALSE
            /\ task' = "Task"
            /\ pc' = "created"
            /\ cur' = 0
            /\ ret' = "True"
            /\ ev' = <<StateChange>>
            /\ hist' = NewRun(hist)
            /\ UNCHANGED <<heap, nobj, timers>>

\* (mutant) pause without the `or self._paused` test
pauseAgain ==
    /\ op' = "pause"
    /\ IF ~running
       THEN /\ ret' = "False"
            /\ ev' = <<>>
            /\ UNCHANGED <<engine, hist>>
       ELSE /\ paused' = TRUE
            /\ heap' = IF current_timer # 0
                       THEN [heap EXCEPT ![current_timer].state = PAUSED]
                       ELSE heap
            /\ ret' = "True"
            /\ ev' = <<StateChange>>
            /\ UNCHANGED <<nobj, timers, running, task, pc, cur, hist>>

\* (mutant) pause marks every queued timer, not only the head
pauseAll ==
    /\ op' = "pause"
    /\ IF ~running \/ paused
       THEN /\ ret' = "False"
            /\ ev' = <<>>
            /\ UNCHANGED <<engine, hist>>
       ELSE /\ paused' = TRUE
            /\ heap' = [h \in Handles |->
                          IF \E i \in 1..Len(timers) : timers[i] = h
                          THEN [heap[h] EXCEPT !.state = PAUSED] ELSE heap[h]]
            /\ ret' = "True"
            /\ ev' = <<StateChange>>
            /\ UNCHANGED <<nobj, timers, running, task, pc, cur, hist>>

pause ==
    /\ op' = "pause"
    /\ IF ~running \/ paused
       THEN /\ ret' = "False"
            /\ ev' = <<>>
            /\ UNCHANGED <<engine, hist>>
       ELSE /\ paused' = TRUE
            /\ heap' = IF current_timer # 0
                       THEN [heap EXCEPT ![current_timer].state = PAUSED]
                       ELSE heap
            /\ ret' = "True"
            /\ ev' = <<StateChange>>
            /\ UNCHANGED <<nobj, timers, running, task, pc, cur, hist>>

\* ---- _run_loop ------------------------------------------------------------
\* The code between two awaits is computed on a record m of the engine's
\* fields and the task's locals:
\*   m.fail  n > 0: the n-th callback invoked from here on raises; 0: none does
\*   m.pc    "go" while the code runs; then the await reached ("tick", "poll",
\*           "alarm"), "done" after the last statement, or "raise" when a
\*           callback raised and the exception is on its way to the handler.

\* `if self.on_x: self.on_x(...)`, all six callbacks being bound
Call(m, e) ==
    IF m.fail = 1
    THEN [m EXCEPT !.ev = Append(@, e), !.fail = 0, !.pc = "raise"]
    ELSE [m EXCEPT !.ev = Append(@, e), !.fail = IF @ > 1 THEN @ - 1 ELSE 0]

\* lines 263-270: the code after the outer while
QueueDone(m) ==
    LET m1 == [m EXCEPT !.running = FALSE]
        m2 == Call(m1, QueueComplete)
        m3 == IF m2.pc = "raise" THEN m2 ELSE Call(m2, StateChange)
    IN  IF m3.pc = "raise" THEN m3 ELSE [m3 EXCEPT !.pc = "done"]

RECURSIVE OuterLoop(_)

\* (mutant) the loop ends after the first timer it has finished
RemoveCompletedAndQuit(m) ==
    LET m1 == IF Len(m.timers) > 0 /\ m.heap[m.timers[1]].id = m.heap[m.cur].id
              THEN [m EXCEPT !.timers = Pop(@, 1)]
              ELSE m
        m2 == Call(m1, StateChange)
    IN  IF m2.pc = "raise" THEN m2 ELSE QueueDone(m2)

\* lines 256-261: pop the finished timer if it is still the head, notify,
\* and go round the outer while
RemoveCompleted(m) ==
    LET m1 == IF Len(m.timers) > 0 /\ m.heap[m.timers[1]].id = m.heap[m.cur].id
              THEN [m EXCEPT !.timers = Pop(@, 1)]
              ELSE m
        m2 == Call(m1, StateChange)
    IN  IF m2.pc = "raise" THEN m2 ELSE OuterLoop(m2)

\* (mutant) every completed timer gets the alarm window
AfterCountdownAlwaysAlarm(m) ==
    IF ~m.running
    THEN QueueDone(m)
    ELSE LET m1 == [m EXCEPT !.heap[m.cur].state = COMPLETE]
             m2 == Call(m1, TimerComplete(m.cur))
         IN  IF m2.pc = "raise" THEN m2
             ELSE LET m3 == [m2 EXCEPT !.heap[m.cur].state = ALARM]
                      m4 == Call(m3, StateChange)
                      m5 == IF m4.pc = "raise" THEN m4 ELSE Call(m4, AlarmStart(m.cur))
                  IN  IF m5.pc = "raise" THEN m5 ELSE [m5 EXCEPT !.pc = "alarm"]

\* lines 232-254: after the countdown loop, up to the alarm sleep
AfterCountdown(m) ==
    IF ~m.running
    THEN QueueDone(m)
    ELSE LET m1 == [m EXCEPT !.heap[m.cur].state = COMPLETE]
             m2 == Call(m1, TimerComplete(m.cur))
         IN  IF m2.pc = "raise" THEN m2
             ELSE IF m2.heap[m.cur].alarm_enabled
             THEN LET m3 == [m2 EXCEPT !.heap[m.cur].state = ALARM]
                      m4 == Call(m3, StateChange)
                      m5 == IF m4.pc = "raise" THEN m4 ELSE Call(m4, AlarmStart(m.cur))
                  IN  IF m5.pc = "raise" THEN m5 ELSE [m5 EXCEPT !.pc = "alarm"]
             ELSE RemoveCompleted(m2)

\* (mutant) the countdown sleeps once before it tests the remaining time
CountdownSleepFirst(m) ==
    IF /\ m.running
       /\ \/ m.heap[m.cur].remaining_seconds > 0
          \/ m.ev # <<>> /\ m.ev[Len(m.ev)] = StateChange
    THEN IF m.paused THEN [m EXCEPT !.pc = "poll"] ELSE [m EXCEPT !.pc = "tick"]
    ELSE AfterCountdown(m)

\* (mutant) the countdown test lets a timer at zero take one more second
CountdownPastZero(m) ==
    IF m.heap[m.cur].remaining_seconds >= 0 /\ m.running
    THEN IF m.paused THEN [m EXCEPT !.pc = "poll"] ELSE [m EXCEPT !.pc = "tick"]
    ELSE AfterCountdown(m)

\* lines 218-223: the test of the countdown loop and the choice of the sleep
Countdown(m) ==
    IF m.heap[m.cur].remaining_seconds > 0 /\ m.running
    THEN IF m.paused THEN [m EXCEPT !.pc = "poll"] ELSE [m EXCEPT !.pc = "tick"]
    ELSE AfterCountdown(m)

\* lines 210-215: the test of the outer while and the start of an iteration
OuterLoop(m) ==
    IF m.running /\ Len(m.timers) > 0
    THEN LET t == m.timers[1]
             m1 == [m EXCEPT !.cur = t, !.heap[t].state = RUNNING]
             m2 == Call(m1, StateChange)
         IN  IF m2.pc = "raise" THEN m2 ELSE Countdown(m2)
    ELSE QueueDone(m)

\* (mutant) the test after the sleep ignores the pause flag
AfterSleepIgnoringPause(m) ==
    IF m.running
    THEN LET m1 == [m EXCEPT !.heap[m.cur].remaining_seconds = @ - 1]
             m2 == Call(m1, Tick(m.cur, m1.heap[m.cur].remaining_seconds))
         IN  IF m2.pc = "raise" THEN m2 ELSE Countdown(m2)
    ELSE Countdown(m)

\* lines 225-230: after `await asyncio.sleep(1)`
AfterSleep(m) ==
    IF ~m.paused /\ m.running
    THEN LET m1 == [m EXCEPT !.heap[m.cur].remaining_seconds = @ - 1]
             m2 == Call(m1, Tick(m.cur, m1.heap[m.cur].remaining_seconds))
         IN  IF m2.pc = "raise" THEN m2 ELSE Countdown(m2)
    ELSE Countdown(m)

\* lines 253-254: after `await asyncio.sleep(5)`
AfterAlarm(m) ==
    LET m1 == Call(m, AlarmEnd(m.cur))
    IN  IF m1.pc = "raise" THEN m1 ELSE RemoveCompleted(m1)

\* lines 274-277: `except Exception`
OnException(m) ==
    [m EXCEPT !.running = FALSE, !.ev = Append(@, StateChange), !.pc = "done"]

\* The task runs from the await it is suspended at up to the next await, the
\* end of the coroutine or a raising callback.
Run(fail) ==
    LET m == [heap |-> heap, timers |-> timers, running |-> running,
              paused |-> paused, cur |-> cur, pc |-> "go", ev |-> <<>>,
              fail |-> fail]
    IN  CASE pc = "created" -> OuterLoop(m)
          [] pc = "poll" -> Countdown(m)
          [] pc = "tick" -> AfterSleep(m)
          [] pc = "alarm" -> AfterAlarm(m)

\* the same, with the try statement around it
Resume(fail) ==
    LET r == Run(fail) IN IF r.pc = "raise" THEN OnException(r) ELSE r

\* The engine after the resumption r; result is what the task's step leaves
\* behind: "None", or "Exception" when an exception leaves the coroutine.
CommitWith(r, name, result) ==
    /\ heap' = Collect(r.heap, r.timers, r.pc, r.cur)
    /\ hist' = CollectHist(Observe(hist, r.ev), r.timers, r.pc, r.cur)
    /\ timers' = r.timers
    /\ running' = r.running
    /\ paused' = r.paused
    /\ cur' = IF r.pc \in Live THEN r.cur ELSE 0
    /\ pc' = r.pc
    /\ ev' = r.ev
    /\ op' = name
    /\ ret' = result
    /\ UNCHANGED <<nobj, task>>

Commit(r, name) == CommitWith(r, name, "None")

\* the number of callbacks the resumption invokes when every one returns;
\* up to the n-th callback a resumption in which the n-th raises is the same
Callbacks == Len(Run(0).ev)

\* a resumption of the task in which every callback returns
LoopStep ==
    /\ pc \in Live
    /\ Commit(Resume(0), "loop")

\* a resumption in which the n-th callback invoked raises
LoopRaise ==
    /\ pc \in Live
    /\ \E n \in 1..Callbacks :
        Commit(Resume(n), "loop_raise")

\* a resumption in which the n-th callback invoked raises and, in the
\* handler, on_state_change (line 277) raises as well: that exception is
\* inside no try statement and leaves _run_loop, ending the task
LoopEscape ==
    /\ pc \in Live
    /\ \E n \in 1..Callbacks :
        CommitWith(Resume(n), "loop_raise", "Exception")

\* The engine driven through its commands alone: the page (cards, duration
\* field) takes no part.
Next ==
    \/ \E d \in Durations, a \in BOOLEAN : add_timer(d, a) /\ UNCHANGED app
    \/ \E id \in 0..MaxTimers : remove_timer(id) /\ UNCHANGED app
    \/ clear_all /\ UNCHANGED app
    \/ start /\ UNCHANGED app
    \/ pause /\ UNCHANGED app
    \/ stop /\ UNCHANGED app
    \/ LoopStep /\ UNCHANGED app
    \/ LoopRaise /\ UNCHANGED app

Spec == Init /\ [][Next]_vars

\* The same, the on_state_change call of the exception handler raising too.
NextEscape ==
    \/ Next
    \/ LoopEscape /\ UNCHANGED app

SpecEscape == Init /\ [][NextEscape]_vars

\* The behaviours in which every callback returns normally.
NextNoRaise ==
    \/ \E d \in Durations, a \in BOOLEAN : add_timer(d, a) /\ UNCHANGED app
    \/ \E id \in 0..MaxTimers : remove_timer(id) /\ UNCHANGED app
    \/ clear_all /\ UNCHANGED app
    \/ start /\ UNCHANGED app
    \/ pause /\ UNCHANGED app
    \/ stop /\ UNCHANGED app
    \/ LoopStep /\ UNCHANGED app

SpecNoRaise == Init /\ [][NextNoRaise]_vars

\* The behaviours without explicit removals: remove_timer and clear_all are
\* never called.
NextFifo ==
    \/ \E d \in Durations, a \in BOOLEAN : add_timer(d, a) /\ UNCHANGED app
    \/ start /\ UNCHANGED app
    \/ pause /\ UNCHANGED app
    \/ stop /\ UNCHANGED app
    \/ LoopStep /\ UNCHANGED app
    \/ LoopRaise /\ UNCHANGED app

SpecFifo == Init /\ [][NextFifo]_vars

\* line 252: `await asyncio.sleep(5)` returns, and the task leaves the await
\* (a step of LoopStep from the alarm sleep, told by what it does to op, pc)
AlarmSleepOver ==
    /\ pc = "alarm"
    /\ op' = "loop"
    /\ pc' \in {"tick", "poll", "alarm", "done"}

\* The behaviours in which every callback returns and the event loop does
\* not leave the task suspended at the alarm sleep for ever.
SpecLoopFair == Init /\ [][NextNoRaise]_vars /\ WF_<<op, pc>>(AlarmSleepOver)

\* The behaviours in which timers are also restored from a stored snapshot
\* (TimeBarsApp.load_data calls add_timer_from_data per stored entry), every
\* callback returning.
NextRestore ==
    \/ \E id \in StoredIds, d \in Durations, a \in BOOLEAN : add_timer_from_data(id, d, a) /\ UNCHANGED app
    \/ \E d \in Durations, a \in BOOLEAN : add_timer(d, a) /\ UNCHANGED app
    \/ \E id \in 0..(MaxTimers + 1) : remove_timer(id) /\ UNCHANGED app
    \/ clear_all /\ UNCHANGED app
    \/ start /\ UNCHANGED app
    \/ pause /\ UNCHANGED app
    \/ stop /\ UNCHANGED app
    \/ LoopStep /\ UNCHANGED app

SpecRestore == Init /\ [][NextRestore]_vars

\* lines 221, 223, 252 and the first resumption of a created task: the sleep
\* the task is suspended at returns and the task leaves it (a step of LoopStep,
\* told by what it does to op and pc). The 0.1 s poll of a paused engine is
\* left only to be entered again, so it is not counted.
SleepOver ==
    /\ pc \in Live
    /\ pc = "poll" => ~paused
    /\ op' = "loop"
    /\ pc' \in {"tick", "poll", "alarm", "done"}

\* The behaviours in which every callback returns and the event loop does
\* not leave the task suspended for ever at a sleep that is over.
SpecSleepFair == Init /\ [][NextNoRaise]_vars /\ WF_<<op, pc>>(SleepOver)

\* ---- the page (scripts/interface.py): duration field, buttons, cards -------
\* Texts are sequences of characters.
Chars == {"0", "1", ":", "-", " "}
DigitChars == <<"0", "1", "2", "3", "4", "5", "6", "7", "8", "9">>
Digits == {DigitChars[i] : i \in 1..10}

RECURSIVE Texts(_)
Texts(n) == IF n = 0 THEN {<<>>} ELSE {Append(s, c) : s \in Texts(n - 1), c \in Chars}
TimeStrings == UNION {Texts(n) : n \in 0..MaxLen}

\* str.strip()
RECURSIVE lstrip(_)
lstrip(s) == IF s # <<>> /\ Head(s) = " " THEN lstrip(Tail(s)) ELSE s
RECURSIVE rstrip(_)
rstrip(s) == IF s # <<>> /\ s[Len(s)] = " " THEN rstrip(SubSeq(s, 1, Len(s) - 1)) ELSE s
strip(s) == rstrip(lstrip(s))

\* str.split(':')
RECURSIVE split(_)
split(s) ==
    IF \A i \in 1..Len(s) : s[i] # ":" THEN <<s>>
    ELSE LET i == CHOOSE k \in 1..Len(s) :
                      s[k] = ":" /\ \A j \in 1..(k - 1) : s[j] # ":"
         IN <<SubSeq(s, 1, i - 1)>> \o split(SubSeq(s, i + 1, Len(s)))

\* str.isdigit()
isdigit(s) == s # <<>> /\ \A i \in 1..Len(s) : s[i] \in Digits

DigitVal(c) == (CHOOSE i \in 1..10 : DigitChars[i] = c) - 1
RECURSIVE Value(_)
Value(s) == IF s = <<>> THEN 0
            ELSE 10 * Value(SubSeq(s, 1, Len(s) - 1)) + DigitVal(s[Len(s)])

\* int(s): surrounding whitespace is dropped and one sign is allowed before
\* the digits; anything else raises ValueError (ok = FALSE)
int(s) ==
    LET t == strip(s)
        signed == t # <<>> /\ Head(t) \in {"-", "+"}
        body == IF signed THEN Tail(t) ELSE t
    IN IF isdigit(body)
       THEN [ok |-> TRUE, val |-> IF signed /\ Head(t) = "-" THEN 0 - Value(body) ELSE Value(body)]
       ELSE [ok |-> FALSE, val |-> 0]

\* hours * 3600 + minutes * 60, or 0 when a conversion raised ValueError
Seconds(hours, minutes) ==
    IF hours.ok /\ minutes.ok THEN hours.val * 3600 + minutes.val * 60 ELSE 0

\* TimeBarsApp._parse_time_input
parse_time_input(time_str) ==
    LET s == strip(time_str)
        parts == split(s)
    IN IF \E i \in 1..Len(s) : s[i] = ":"
       THEN IF Len(parts) = 2 THEN Seconds(int(parts[1]), int(parts[2])) ELSE 0
       ELSE IF isdigit(s)
       THEN CASE Len(s) <= 2 -> Seconds([ok |-> TRUE, val |-> 0], int(s))
              [] Len(s) = 3 -> Seconds(int(SubSeq(s, 1, 1)), int(SubSeq(s, 2, 3)))
              [] Len(s) = 4 -> Seconds(int(SubSeq(s, 1, 2)), int(SubSeq(s, 3, 4)))
              [] OTHER -> 0
       ELSE 0

\* TimeBarsApp._add_timer_clicked with the alarm checkbox at `alarm`
add_timer_clicked(alarm) ==
    LET duration == parse_time_input(text) IN
    IF duration <= 0
    THEN /\ op' = "add_timer_clicked"
         /\ ret' = "None"
         /\ ev' = <<>>
         /\ UNCHANGED <<engine, hist, cards, text, file, snapshot, pending>>
    ELSE /\ duration <= MaxSeconds
         /\ add_timer(duration, alarm)
         /\ cards' = cards \cup {heap'[nobj'].id}
         /\ text' = <<>>
         /\ UNCHANGED <<file, snapshot, pending>>

\* TimeBarsApp._remove_timer, bound to the delete button of the card of `id`
remove_timer_clicked(id) ==
    /\ id \in cards
    /\ remove_timer(id)
    /\ cards' = cards \ {id}
    /\ UNCHANGED <<text, file, snapshot, pending>>

\* TimeBarsApp._clear_all_clicked
clear_all_clicked ==
    /\ clear_all
    /\ cards' = {}
    /\ UNCHANGED <<text, file, snapshot, pending>>

\* TimeBarsApp._start_clicked, _pause_clicked, _stop_clicked
start_clicked == start /\ UNCHANGED app
pause_clicked == pause /\ UNCHANGED app
stop_clicked == stop /\ UNCHANGED app

\* a resumption of the loop task with the page's callbacks bound:
\* _on_alarm_end deletes the card of its timer, the others touch no card
LoopStepPage ==
    /\ LoopStep
    /\ cards' = cards \ {heap[e.t].id : e \in {ev'[i] : i \in {j \in 1..Len(ev') : ev'[j].kind = "alarm_end"}}}
    /\ UNCHANGED <<text, file, snapshot, pending>>

\* The page with a text in the duration field: every text of at most MaxLen
\* characters is an input.
InitPage ==
    /\ hist = [h \in Handles |-> NoHist]
    /\ heap = [h \in Handles |-> NoTimer]
    /\ nobj = 0
    /\ timers = <<>>
    /\ running = FALSE
    /\ paused = FALSE
    /\ task = "None"
    /\ pc = "none"
    /\ cur = 0
    /\ op = "init"
    /\ ret = "None"
    /\ ev = <<>>
    /\ cards = {}
    /\ text \in TimeStrings
    /\ file = Plain("missing")
    /\ snapshot = DefaultSnapshot
    /\ pending = 0

NextPage ==
    \/ \E a \in BOOLEAN : add_timer_clicked(a)
    \/ \E id \in Handles : remove_timer_clicked(id)
    \/ clear_all_clicked
    \/ start_clicked
    \/ pause_clicked
    \/ stop_clicked
    \/ LoopStepPage

SpecPage == InitPage /\ [][NextPage]_vars

\* ---- PersistenceManager (scripts/config.py) --------------------------------
\* What a write of persistent.json can do: succeed, fail before the file is
\* opened (the file stays), or fail after open(..., 'w') truncated it.
Writes == {"ok", "refused", "torn"}

\* PersistenceManager.save with the write ending as w: the file afterwards
Save(snap, f, w) ==
    CASE w = "ok" ->
            Object([shape |-> "dict", value |-> snap.settings],
                   [shape |-> "list",
                    items |-> [i \in 1..Len(snap.timer_queue) |->
                                  [usable |-> TRUE, data |-> snap.timer_queue[i]]]])
      [] w = "refused" -> f
      [] OTHER -> Plain("garbled")

\* lines 72-75: the entries appended to _timer_queue before from_dict raises
RECURSIVE Appended(_)
Appended(items) ==
    IF items = <<>> \/ ~Head(items).usable THEN <<>>
    ELSE <<Head(items).data>> \o Appended(Tail(items))

\* PersistenceManager.load on the file f with the fields snap, a write made
\* by _create_default ending as w: the fields and the file afterwards and the
\* value returned
Load(f, snap, w) ==
    CASE f.kind = "missing" ->
            [snapshot |-> DefaultSnapshot, file |-> Save(DefaultSnapshot, f, w), ret |-> "True"]
      [] f.kind = "garbled" ->
            [snapshot |-> DefaultSnapshot, file |-> Save(DefaultSnapshot, f, w), ret |-> "False"]
      [] f.kind \in {"unreadable", "scalar"} ->
            [snapshot |-> snap, file |-> f, ret |-> "False"]
      [] OTHER ->
            IF f.settings.shape = "unusable"
            THEN [snapshot |-> snap, file |-> f, ret |-> "False"]
            ELSE [snapshot |-> [settings |-> IF f.settings.shape = "dict"
                                             THEN f.settings.value ELSE snap.settings,
                                timer_queue |-> Appended(f.timer_queue.items)],
                  file |-> f,
                  ret |-> IF /\ f.timer_queue.shape # "unusable"
                             /\ \A i \in 1..Len(f.timer_queue.items) : f.timer_queue.items[i].usable
                          THEN "True" ELSE "False"]

load ==
    /\ \E w \in Writes :
        LET r == Load(file, snapshot, w) IN
            /\ snapshot' = r.snapshot
            /\ file' = r.file
            /\ ret' = r.ret
    /\ op' = "load"
    /\ ev' = <<>>
    /\ UNCHANGED <<engine, hist, cards, text, pending>>

\* PersistenceManager.save
save ==
    /\ \E w \in Writes :
        /\ file' = Save(snapshot, file, w)
        /\ ret' = IF w = "ok" THEN "True" ELSE "False"
    /\ op' = "save"
    /\ ev' = <<>>
    /\ UNCHANGED <<engine, hist, cards, text, snapshot, pending>>

\* A PersistenceManager as constructed, over any persistent.json.
InitLoad ==
    /\ hist = [h \in Handles |-> NoHist]
    /\ heap = [h \in Handles |-> NoTimer]
    /\ nobj = 0
    /\ timers = <<>>
    /\ running = FALSE
    /\ paused = FALSE
    /\ task = "None"
    /\ pc = "none"
    /\ cur = 0
    /\ op = "init"
    /\ ret = "None"
    /\ ev = <<>>
    /\ cards = {}
    /\ text = <<>>
    /\ file \in Files
    /\ snapshot = DefaultSnapshot
    /\ pending = 0

NextLoad ==
    \/ load
    \/ save

SpecLoad == InitLoad /\ [][NextLoad]_vars

\* ---- the event loop and the tasks stop() has cancelled -----------------------
\* A command that cancels the task (pc becomes "cancelled") leaves a task the
\* event loop still has to resume once, with CancelledError.
Cancelling(A) ==
    /\ A
    /\ IF pc \in Live /\ pc' = "cancelled"
       THEN pending < MaxPending /\ pending' = pending + 1
       ELSE pending' = pending
    /\ UNCHANGED <<cards, text, file, snapshot>>

\* lines 272-273: a cancelled task is resumed: CancelledError is raised at the
\* await it is suspended at (or before its first line, if it never ran),
\* `except asyncio.CancelledError` logs, and the task ends
ResumeCancelled ==
    /\ pending > 0
    /\ pending' = pending - 1
    /\ op' = "loop_cancelled"
    /\ ret' = "None"
    /\ ev' = <<>>
    /\ UNCHANGED <<engine, hist, cards, text, file, snapshot>>

\* The behaviours of start, pause, stop and clear_all over queues built by
\* add_timer, the cancelled tasks being resumed at any later time.
NextTasks ==
    \/ \E d \in Durations, a \in BOOLEAN : add_timer(d, a) /\ UNCHANGED app
    \/ start /\ UNCHANGED app
    \/ pause /\ UNCHANGED app
    \/ Cancelling(stop)
    \/ Cancelling(clear_all)
    \/ LoopStep /\ UNCHANGED app
    \/ ResumeCancelled

SpecTasks == Init /\ [][NextTasks]_vars

\* ---- shutdown and the next start (scripts/interface.py) --------------------
\* (mutant) every queued timer is saved, the finished ones too
Everything(h) == TRUE

\* line 69: `if t.state != TimerState.COMPLETE`
NotComplete(h) == heap[h].state # COMPLETE

\* lines 63-70: the TimerData of a queued timer
DataOf(h) == TimerData(heap[h].id, heap[h].duration_seconds, heap[h].alarm_enabled)

\* lines 62-70: the list save_data hands to update_queue
timer_data ==
    LET kept == SelectSeq(timers, NotComplete) IN
        [i \in 1..Len(kept) |-> DataOf(kept[i])]

\* lines 52-57 with timers.py 126-132: the Timer made from one stored entry
FromData(d) == Timer(d.id, d.duration_seconds, d.duration_seconds, d.alarm_enabled, WAITING)

\* The application has not been shut down.
Open == op \notin {"save_data", "load_data"}

\* TimeBarsApp.save_data, called by the shutdown handler (lines 60-72);
\* update_queue replaces _timer_queue and writes the file (config.py 148-151)
save_data ==
    /\ Open
    /\ snapshot' = [snapshot EXCEPT !.timer_queue = timer_data]
    /\ \E w \in Writes : file' = Save(snapshot', file, w)
    /\ op' = "save_data"
    /\ ret' = "None"
    /\ ev' = <<>>
    /\ UNCHANGED <<engine, hist, cards, text, pending>>

\* The next start of the application: a new TimeBarsApp (lines 25-43, a
\* TimerManager and a PersistenceManager as constructed) and its load_data
\* (lines 45-58), which loads the file and adds a timer per stored entry.
load_data ==
    /\ op = "save_data"
    /\ \E w \in Writes :
        LET r == Load(file, DefaultSnapshot, w)
            q == r.snapshot.timer_queue
        IN  /\ Len(q) <= MaxTimers
            /\ snapshot' = r.snapshot
            /\ file' = r.file
            /\ heap' = [h \in Handles |-> IF h <= Len(q) THEN FromData(q[h]) ELSE NoTimer]
            /\ nobj' = Len(q)
            /\ timers' = [i \in 1..Len(q) |-> i]
    /\ running' = FALSE
    /\ paused' = FALSE
    /\ task' = "None"
    /\ pc' = "none"
    /\ cur' = 0
    /\ hist' = [h \in Handles |-> NoHist]
    /\ cards' = {}
    /\ text' = <<>>
    /\ pending' = 0
    /\ op' = "load_data"
    /\ ret' = "None"
    /\ ev' = <<>>

\* One run of the application, its shutdown and the start of the next run.
NextSession ==
    \/ Open /\ (\E d \in Durations, a \in BOOLEAN : add_timer(d, a)) /\ UNCHANGED app
    \/ Open /\ start /\ UNCHANGED app
    \/ Open /\ pause /\ UNCHANGED app
    \/ Open /\ stop /\ UNCHANGED app
    \/ Open /\ LoopStep /\ UNCHANGED app
    \/ Open /\ LoopRaise /\ UNCHANGED app
    \/ save_data
    \/ load_data

SpecSession == Init /\ [][NextSession]_vars

\* ---- helpers of the properties ---------------------------------------------
InQueue(q, h) == \E i \in 1..Len(q) : q[i] = h
\* the Timer objects the engine holds: queued, or driven by the suspended loop
Held(q, p, c) == {h \in Handles : InQueue(q, h) \/ (p \in Live /\ c = h)}
Kinds(e) == {e[i].kind : i \in 1..Len(e)}
LoopOps == {"loop", "loop_raise"}
Active == {RUNNING, PAUSED, ALARM}

\* C1: every timer the engine holds (queued, or still driven by the loop)
\* has 0 <= remaining_seconds <= duration_seconds, in every reachable state.
C1_RemainingInRange ==
    \A h \in Held(timers, pc, cur) :
        /\ 0 <= heap[h].remaining_seconds
        /\ heap[h].remaining_seconds <= heap[h].duration_seconds

\* a timer of the longest duration has been counted down to zero by the loop
C1_Witness ==
    /\ pc = "alarm"
    /\ heap[cur].duration_seconds = MaxDur
    /\ heap[cur].remaining_seconds = 0

\* C2: only the head of the queue can be Running, Paused or Alarm; every
\* queued timer behind the head is Waiting.
C2_OnlyHeadActive ==
    \A i \in 2..Len(timers) : heap[timers[i]].state = WAITING

\* a queue of two or more whose head is in one of the three active states
C2_Witness ==
    /\ Len(timers) >= 2
    /\ heap[timers[1]].state \in Active
    /\ pc \in Live

\* C3: whenever start() has just returned success the engine is actively
\* running: _running set, _paused clear and a loop task alive.
C3_StartSuccessRuns ==
    (op = "start" /\ ret = "True") => (running /\ ~paused /\ pc \in Live)

\* C4: start() with an empty queue, or while running and not paused, returns
\* failure, changes no field of the engine or of a timer, creates no task and
\* invokes no callback.
C4_StartFailureNoOp ==
    [][(op' = "start" /\ (Len(timers) = 0 \/ is_running))
        => (ret' = "False" /\ ev' = <<>> /\ UNCHANGED engine)]_vars

\* start() has just been refused on an engine that is counting down
C4_Witness ==
    /\ op = "start"
    /\ ret = "False"
    /\ is_running
    /\ pc = "tick"

\* C5: pause() returns failure unless the engine is running and not paused,
\* and then changes no flag and no timer field and invokes no callback.
C5_PauseFailureNoOp ==
    [][(op' = "pause" /\ ~(running /\ ~paused))
        => (ret' = "False" /\ ev' = <<>> /\ UNCHANGED engine)]_vars

\* pause() has just been refused on an engine that is already paused
C5_Witness ==
    /\ op = "pause"
    /\ ret = "False"
    /\ is_paused
    /\ Len(timers) > 0

\* C6: while the engine is paused (and over the step that resumes it) no held
\* timer's remaining_seconds changes and no tick is emitted, also when the
\* pause arrived during the one-second wait; and every tick, the first one
\* after a resume included, carries the value the timer had before the step
\* less one, so ticking goes on from the frozen value.
C6_PausedFreezes ==
    [][/\ (is_paused /\ (is_paused' \/ op' = "start"))
            => /\ \A h \in Held(timers, pc, cur) \cap Held(timers', pc', cur') :
                    heap'[h].remaining_seconds = heap[h].remaining_seconds
               /\ "tick" \notin Kinds(ev')
       /\ \A i \in 1..Len(ev') :
            ev'[i].kind = "tick"
                => ev'[i].remaining = heap[ev'[i].t].remaining_seconds - 1
      ]_vars

\* the loop has come back from a wait on a paused engine, its timer part-way
\* through the countdown
C6_Witness ==
    /\ is_paused
    /\ op = "loop"
    /\ pc = "poll"
    /\ heap[cur].remaining_seconds > 0
    /\ heap[cur].remaining_seconds < heap[cur].duration_seconds

\* C7: whenever the engine is paused and the queue is not empty, the head
\* timer's state is Paused.
C7_PausedHeadIsPaused ==
    (is_paused /\ Len(timers) > 0) => heap[timers[1]].state = PAUSED

\* C8: resuming a paused engine puts the head timer back to Running, and a
\* timer is decremented (a tick is emitted for it) only while it is Running.
C8_ResumeRestoresRunning ==
    [][/\ (is_paused /\ op' = "start" /\ ret' = "True")
            => heap'[timers'[1]].state = RUNNING
       /\ \A i \in 1..Len(ev') :
            ev'[i].kind = "tick" => heap[ev'[i].t].state = RUNNING
      ]_vars

\* C9: stop() can always be called, and it leaves both flags clear, the queue
\* as it was, every queued timer Waiting with remaining_seconds equal to
\* duration_seconds and its other fields unchanged, and invokes
\* on_state_change.
C9_StopResets ==
    /\ [](ENABLED stop)
    /\ [][op' = "stop"
            => /\ ~running' /\ ~paused'
               /\ timers' = timers
               /\ \A i \in 1..Len(timers) :
                    LET old == heap[timers[i]]
                        new == heap'[timers[i]]
                    IN  /\ new.state = WAITING
                        /\ new.remaining_seconds = old.duration_seconds
                        /\ new.duration_seconds = old.duration_seconds
                        /\ new.id = old.id
                        /\ new.alarm_enabled = old.alarm_enabled
               /\ ev' = <<StateChange>>
               /\ ret' = "None"
       ]_vars

\* stop() has just cut a live loop short, with timers queued
C9_Witness ==
    /\ op = "stop"
    /\ pc = "cancelled"
    /\ Len(timers) >= 2

\* C10: from stop() until the next successful start() (the states in which
\* _task is None: they are idle, and only a start() that creates a task leaves
\* them) the loop takes no step, so it invokes no callback and writes no timer
\* and not the queue.
C10_StoppedLoopSilent ==
    /\ [](task = "None" => (~running /\ ~paused))
    /\ [][task = "None"
            => /\ op' \notin LoopOps
               /\ Kinds(ev') \subseteq {"state_change"}
       ]_vars

\* a command has been handled after stop() cancelled the loop, which stays dead
\* with timers still queued
C10_Witness ==
    /\ task = "None"
    /\ pc = "cancelled"
    /\ op = "pause"
    /\ Len(timers) > 0

\* the positions of ev at which callback k was invoked for timer h
At(e, k, h) == {i \in 1..Len(e) : e[i].kind = k /\ e[i].t = h}

\* C11: when on_timer_complete is called for a timer, on_tick has been called
\* for it exactly duration_seconds times since it was created or last reset
\* by stop(), all of them before the completion, however pause and resume
\* were interleaved; so a countdown cut short by stop() is replayed in full.
C11_ExactlyDTicks ==
    [][\A h \in Handles : \A i \in At(ev', "timer_complete", h) :
            /\ hist[h].ticks + Cardinality({j \in At(ev', "tick", h) : j < i})
                    = heap[h].duration_seconds
            /\ \A j \in At(ev', "tick", h) : j < i
      ]_vars

\* a timer of the longest duration has just completed, after that many ticks
C11_Witness ==
    /\ pc = "alarm"
    /\ At(ev, "timer_complete", cur) # {}
    /\ heap[cur].duration_seconds = MaxDur
    /\ hist[cur].ticks = MaxDur

\* C13 (as claimed): on_timer_complete is called at most once for a timer
\* over its whole life in the queue.
C13_CompleteAtMostOnce ==
    [][\A h \in Handles :
            At(ev', "timer_complete", h) # {}
                => (hist[h].done = 0 /\ Cardinality(At(ev', "timer_complete", h)) = 1)
      ]_vars

\* the positions of ev at which a callback other than on_state_change was
\* invoked for timer h
TimerEvents(e, h) == {i \in 1..Len(e) : e[i].t = h}

\* C12: when remove_timer and clear_all are never called, timers are served
\* in the order they were added (handles are given out in that order): a
\* timer becomes Running, or has an event, only when no timer added before it
\* is left in the queue, and after all events of those; a timer leaves the
\* queue only after every timer added before it has left, after its
\* timer-complete and, if alarm-enabled, at its alarm-end.
C12_Fifo ==
    [][/\ \A h \in Handles :
            (\/ TimerEvents(ev', h) # {}
             \/ heap[h].state # RUNNING /\ heap'[h].state = RUNNING)
            => /\ InQueue(timers, h)
               /\ \A x \in 1..(h - 1) :
                    /\ ~InQueue(timers', x)
                    /\ \A i \in TimerEvents(ev', x), j \in TimerEvents(ev', h) : i < j
       /\ \A x \in Handles :
            InQueue(timers, x) /\ ~InQueue(timers', x)
            => /\ op' \in LoopOps
               /\ \A y \in 1..(x - 1) : ~InQueue(timers', y)
               /\ At(ev', "timer_complete", x) # {} \/ hist[x].done \in {2, 3}
               /\ heap[x].alarm_enabled => At(ev', "alarm_end", x) # {}
      ]_vars

\* the second timer runs after the first, alarm-enabled, has ended its alarm
\* and left the queue
C12_Witness ==
    /\ op = "loop"
    /\ timers = <<2>>
    /\ heap[2].state = RUNNING
    /\ At(ev, "alarm_end", 1) # {}

\* C14: on_alarm_start and on_alarm_end are called only for alarm-enabled
\* timers, on_alarm_end only for a timer whose alarm has started and not
\* ended, and every on_alarm_start is eventually followed by the on_alarm_end
\* of the same timer, whatever commands are issued in between.
C14_AlarmBracket ==
    /\ [][\A h \in Handles :
            /\ At(ev', "alarm_start", h) \cup At(ev', "alarm_end", h) # {}
                    => heap[h].alarm_enabled
            /\ At(ev', "alarm_end", h) # {} => hist[h].open
          ]_vars
    /\ \A h \in Handles :
            (At(ev, "alarm_start", h) # {}) ~> (At(ev, "alarm_end", h) # {})

C16_RemovedHeadSilent ==
    [][/\ \A h \in Handles : TimerEvents(ev', h) # {} => InQueue(timers, h)
       /\ (/\ op' \in LoopOps
           /\ pc \in Live
           /\ ~InQueue(timers, cur)
           /\ timers # <<>>
           /\ running /\ ~paused)
          => \/ TimerEvents(ev', timers[1]) # {}
             \/ InQueue(timers', timers[1]) /\ heap'[timers[1]].state = RUNNING
      ]_vars

\* C17: remove_timer(id) returns True exactly when a queued timer has that
\* id; then that one timer is gone from the queue, the others keep their
\* order and fields, the running and paused flags are kept and one
\* state-change is emitted; otherwise it returns False, the queue, the timers
\* and the flags are unchanged and nothing is emitted.
C17_RemoveFrame ==
    [][op' = "remove_timer" => \A id \in 0..MaxTimers :
        remove_timer(id)
        => LET M == {i \in 1..Len(timers) : heap[timers[i]].id = id} IN
           /\ ret' \in {"True", "False"}
           /\ (ret' = "True") = (M # {})
           /\ running' = running /\ paused' = paused
           /\ \A h \in Held(timers', pc', cur') : heap'[h] = heap[h]
           /\ ret' = "True"
                => /\ \E i \in M : timers' = Pop(timers, i)
                   /\ \A h \in Handles : InQueue(timers', h) => heap[h].id # id
                   /\ ev' = <<StateChange>>
           /\ ret' = "False"
                => /\ timers' = timers
                   /\ heap' = heap
                   /\ ev' = <<>>
      ]_vars

\* the second of two queued timers has been removed while the loop was
\* driving the first
C17_Witness ==
    /\ op = "remove_timer"
    /\ ret = "True"
    /\ nobj = 2
    /\ timers = <<1>>
    /\ pc \in Live
    /\ cur = 1

\* C18: add_timer can be called in every state (while timers can still be
\* created) and returns the new Timer; the queue afterwards is the queue
\* before with one new timer at the tail, Waiting, its remaining_seconds
\* equal to its duration_seconds; the flags, the task and its timer, and
\* every timer the engine held are unchanged, and one state-change is emitted.
C18_AddFrame ==
    /\ [](nobj < MaxTimers => ENABLED (\E d \in Durations, a \in BOOLEAN : add_timer(d, a)))
    /\ [][op' = "add_timer"
            => /\ ret' = "Timer"
               /\ \E h \in Handles \ Held(timers, pc, cur) :
                    /\ timers' = Append(timers, h)
                    /\ heap'[h].state = WAITING
                    /\ heap'[h].remaining_seconds = heap'[h].duration_seconds
               /\ \A g \in Held(timers, pc, cur) : heap'[g] = heap[g]
               /\ running' = running /\ paused' = paused
               /\ task' = task /\ pc' = pc /\ cur' = cur
               /\ ev' = <<StateChange>>
         ]_vars

\* a timer has been added behind the head while the head was counted down
C18_Witness ==
    /\ op = "add_timer"
    /\ pc = "tick"
    /\ Len(timers) = 2
    /\ heap[timers[1]].state = RUNNING
    /\ heap[timers[1]].remaining_seconds < heap[timers[1]].duration_seconds
    /\ heap[timers[2]].state = WAITING
    /\ heap[timers[2]].remaining_seconds = MaxDur

\* C19: clear_all(), in whatever state it is called, leaves the queue empty,
\* both flags clear, no task and no timer held, having notified once for the
\* stop and once for the emptying; and while there is no task the loop takes
\* no step and no callback other than on_state_change is called: a task
\* appears again only by a start() that returns True on a non-empty queue.
C19_ClearAll ==
    [][/\ op' = "clear_all"
            => /\ timers' = <<>>
               /\ ~running' /\ ~paused'
               /\ task' = "None"
               /\ pc' \notin Live
               /\ Held(timers', pc', cur') = {}
               /\ ev' = <<StateChange, StateChange>>
       /\ task = "None"
            => /\ op' \notin LoopOps
               /\ Kinds(ev') \subseteq {"state_change"}
               /\ task' # "None" => (op' = "start" /\ ret' = "True" /\ timers # <<>>)
      ]_vars

\* clear_all() has cancelled the loop with all timers of the model queued
C19_Witness ==
    /\ op = "clear_all"
    /\ pc = "cancelled"
    /\ nobj = MaxTimers
    /\ timers = <<>>

\* C20: on_queue_complete is called only by the loop, when the queue is
\* empty, as the last thing a task does (so once per task, and never by a
\* task that stop() or clear_all() cancelled); the running flag is clear
\* afterwards; and every task that ends by itself with all callbacks
\* returning has called it.
C20_QueueCompleteOnce ==
    [][/\ "queue_complete" \in Kinds(ev')
            => /\ op' \in LoopOps
               /\ task # "None" /\ pc \in Live
               /\ pc' = "done"
               /\ timers' = <<>>
               /\ ~running'
               /\ Cardinality(At(ev', "queue_complete", 0)) = 1
       /\ (op' = "loop" /\ pc \in Live /\ pc' = "done")
            => "queue_complete" \in Kinds(ev')
       /\ op' \in {"stop", "clear_all"} => pc' \notin Live
      ]_vars

\* the loop has drained a queue of two timers and called on_queue_complete
C20_Witness ==
    /\ op = "loop"
    /\ pc = "done"
    /\ "queue_complete" \in Kinds(ev)
    /\ nobj = 2
    /\ timers = <<>>
    /\ ~running

\* the commands that C21 supposes are not issued
Disturbing == {"pause", "stop", "clear_all", "remove_timer"}

\* C21: once start() has returned True on a non-empty queue, then, the loop
\* being resumed whenever its sleep is over, either one of pause, stop,
\* clear_all, remove_timer is issued, or the loop comes to the step in which
\* it calls on_queue_complete, once, leaving the queue empty and the engine
\* idle.
C21_Drains ==
    (op = "start" /\ ret = "True" /\ timers # <<>>)
        ~> \/ op \in Disturbing
           \/ /\ timers = <<>>
              /\ ~running
              /\ Cardinality(At(ev, "queue_complete", 0)) = 1

\* a timer of duration 0 without alarm
ZeroPlain(t) == t.duration_seconds = 0 /\ ~t.alarm_enabled

C23_StateChangeOnMutation ==
    [][(running' # running \/ paused' # paused \/ timers' # timers)
            => "state_change" \in Kinds(ev')
      ]_vars

\* C24: when a callback raises inside the loop, no exception leaves the
\* loop's coroutine: the task ends, the running flag is clear, so the engine
\* reports idle, and the last thing the step did was to call on_state_change.
C24_LoopFailureContained ==
    [][op' = "loop_raise"
            => /\ ret' = "None"
               /\ pc' = "done"
               /\ ~running'
               /\ ev' # <<>> /\ ev'[Len(ev')] = StateChange
      ]_vars

\* The texts the duration field asks for ("HH:MM or HHMM", and MM alone):
\* one to four digits, or digits, a colon and digits.
WellFormed(s) ==
    LET t == strip(s)
        parts == split(t)
    IN \/ isdigit(t) /\ Len(t) <= 4
       \/ Len(parts) = 2 /\ isdigit(parts[1]) /\ isdigit(parts[2])

\* the step is an add request made with the text in the duration field
AddRequest == op' \in {"add_timer_clicked", "add_timer"}

\* C25: an add request whose text is malformed parses to a non-positive
\* duration, and an add request whose parsed duration is <= 0 never reaches
\* the engine: the queue, the flags, every other engine field and the cards
\* are unchanged and no callback is invoked.
C25_InvalidAddRejected ==
    [][AddRequest =>
          /\ ~WellFormed(text) => parse_time_input(text) <= 0
          /\ parse_time_input(text) <= 0 =>
                /\ op' = "add_timer_clicked"
                /\ UNCHANGED <<engine, cards>>
                /\ ev' = <<>>]_vars

\* C26: whenever load() fails to read or parse persistent.json (it returns
\* False), the fields afterwards are the empty default (default settings, no
\* timer) and load() returned: no exception left it.
C26_FailedLoadIsDefault ==
    [][op' = "load" =>
          /\ ret' \in {"True", "False"}
          /\ ret' = "False" => snapshot' = DefaultSnapshot]_vars

\* order and range of fractions with positive denominators
FracLeq(p, q) == p[1] * q[2] <= q[1] * p[2]
FracInUnit(p) == 0 <= p[1] /\ p[1] <= p[2]
FracIsOne(p) == p[1] = p[2]

\* the Timer object h as on_tick sees it when it reads `remaining`
AtTick(h, remaining) == [heap[h] EXCEPT !.remaining_seconds = remaining]

\* C27: at every tick event the progress of the timer is at least the
\* progress at the previous tick of the same timer in this run; and the
\* progress of every timer the engine holds lies in [0, 1] and is 1 exactly
\* when its remaining_seconds is 0.
C27_ProgressMonotone ==
    [][/\ \A h \in Held(timers', pc', cur') :
            /\ FracInUnit(progress(heap'[h]))
            /\ FracIsOne(progress(heap'[h])) <=> heap'[h].remaining_seconds = 0
       /\ \A i \in 1..Len(ev') :
            ev'[i].kind = "tick" =>
                LET h == ev'[i].t
                    now == progress(AtTick(h, ev'[i].remaining))
                IN /\ FracInUnit(now)
                   /\ FracIsOne(now) <=> ev'[i].remaining = 0
                   /\ hist[h].last >= 0 =>
                        FracLeq(progress(AtTick(h, hist[h].last)), now)]_vars

\* a second tick of a timer has been observed, and a tick that reports 1
C27_Witness ==
    /\ op = "loop"
    /\ \E i \in 1..Len(ev) :
        /\ ev[i].kind = "tick"
        /\ ev[i].remaining = 0
        /\ InQueue(timers, ev[i].t)
        /\ hist[ev[i].t].ticks = 2
        /\ heap[ev[i].t].duration_seconds = 2

\* C28: a task cancelled by stop() changes nothing and invokes no callback
\* when it is resumed; the steps that decrement, emit or remove are those of
\* the one task that is not cancelled; and start() creates a task only when
\* the task created before is finished or cancelled. So no two loops drive
\* the queue.
C28_SingleLoop ==
    [][/\ op' = "loop_cancelled" => ev' = <<>> /\ UNCHANGED <<engine, hist>>
       /\ op' \in LoopOps => pc \in Live
       /\ (op' = "start" /\ ~running /\ running') => pc \notin Live /\ pc' = "created"]_vars

\* stop() and then start() before the cancelled task was resumed; the new
\* task has started its countdown when the old one is resumed
C28_Witness ==
    /\ op = "loop_cancelled"
    /\ pending = 0
    /\ running
    /\ pc = "tick"
    /\ timers # <<>>

\* the transitions of the specified machine, and their compositions (what
\* one uninterrupted stretch of the loop may do to a timer)
Transitions ==
    {<<WAITING, RUNNING>>, <<RUNNING, PAUSED>>, <<PAUSED, RUNNING>>,
     <<RUNNING, COMPLETE>>, <<COMPLETE, ALARM>>}
Then(R, S) ==
    {<<a, c>> \in TimerState \X TimerState :
        \E b \in TimerState : <<a, b>> \in R /\ <<b, c>> \in S}
Paths ==
    LET two == Then(Transitions, Transitions)
        three == Then(two, Transitions)
        four == Then(three, Transitions)
    IN Transitions \cup two \cup three \cup four

\* C29: whenever the state of a timer the engine holds changes, a command
\* has made one transition of the machine (or stop() has reset the timer to
\* Waiting), or the loop has made a sequence of them; and a Paused timer
\* whose countdown the loop takes up again is not made Complete or Alarm
\* without having been made Running.
C29_StateMachine ==
    [][\A h \in Held(timers, pc, cur) \cap Held(timers', pc', cur') :
          heap'[h].state # heap[h].state =>
             IF op' \in LoopOps
             THEN /\ <<heap[h].state, heap'[h].state>> \in Paths
                  /\ ~ /\ pc \in {"tick", "poll"}
                       /\ cur = h
                       /\ heap[h].state = PAUSED
                       /\ heap'[h].state \in {COMPLETE, ALARM}
             ELSE \/ <<heap[h].state, heap'[h].state>> \in Transitions
                  \/ op' \in {"stop", "clear_all"} /\ heap'[h].state = WAITING]_vars

\* the events the loop keeps for a running engine
Advancing == {"timer_complete", "alarm_start", "alarm_end", "queue_complete"}

\* C30: a step of the loop taken while the engine is paused removes no timer
\* from the queue and invokes none of on_timer_complete, on_alarm_start,
\* on_alarm_end, on_queue_complete, wherever the task was suspended when
\* pause() was called.
C30_PausedLoopIdles ==
    [][(op' \in LoopOps /\ running /\ paused) =>
          /\ timers' = timers
          /\ Kinds(ev') \cap Advancing = {}]_vars

\* C31: in every reachable state the pause flag is set only while the running
\* flag is set; in particular not after the loop has ended, by queue
\* completion or in its exception handler.
C31_PausedImpliesRunning == paused => running

\* C32: a step of the loop takes out of the queue only timers the loop has
\* finished: on_timer_complete was called for the timer in this step, or the
\* step resumes the alarm sleep of that timer (its completion came before the
\* sleep); so no timer that is still Waiting is taken out by the loop, also
\* when restored timers carry equal or empty ids.
C32_LoopRemovesFinishedOnly ==
    [][op' \in LoopOps =>
          \A h \in Handles :
             (InQueue(timers, h) /\ ~InQueue(timers', h)) =>
                \/ At(ev', "timer_complete", h) # {}
                \/ pc = "alarm" /\ cur = h]_vars

\* C33: once the loop has taken a step that leaves the queue empty and the
\* engine running, the engine becomes idle (running flag clear) unless a
\* command is issued first; so it does not stay running or paused for ever
\* with an empty queue after remove_timer took the last timer.
C33_EmptyQueueGoesIdle ==
    (timers = <<>> /\ running /\ op \in LoopOps)
        ~> (~running \/ op \notin LoopOps)

\* C34: between the steps of the page (the loop suspended or ended, no
\* handler running) the timers that have a card are the timers of the queue:
\* the set of card ids equals the set of ids of the queued timers.
C34_CardsAreQueue ==
    cards = {heap[timers[i]].id : i \in 1..Len(timers)}

\* C35 (as stated): save_data followed by load_data into a fresh engine gives
\* back every queued timer: same ids, duration_seconds and alarm_enabled in
\* the same order, each Waiting with remaining_seconds == duration_seconds.
Written == file = Save(snapshot, file, "ok")
Reopened == op = "save_data" /\ op' = "load_data" /\ Written
====
